---- MODULE Spec2Model ----
(***************************************************************************)
(* A model of the xpolynomial library: the polynomial value type, the      *)
(* Euclidean algorithm, Yun's square-free decomposition and the Sturm      *)
(* based real root finder.                                                 *)
(*                                                                         *)
(* Coefficients (double in the source) are exact rationals <<n, d>> in     *)
(* lowest terms with d > 0.  The IEEE specials that the code can produce   *)
(* by dividing by zero are kept: <<1,0>> is +inf, <<-1,0>> is -inf and     *)
(* <<0,0>> is NaN.  Zero carries no sign.  Rounding error of the double    *)
(* arithmetic is not modelled; every tolerance test is the code's test.    *)
(* A polynomial is the sequence of its coefficients, coeffs_[i] at         *)
(* position i+1.                                                           *)
(***************************************************************************)
EXTENDS Integers, Sequences, FiniteSets

VARIABLES p, q, arg, op, res, steps

vars == <<p, q, arg, op, res, steps>>

----------------------------------------------------------------------------
(* Scalars *)

Abs(n) == IF n < 0 THEN -n ELSE n

Sgn(n) == IF n > 0 THEN 1 ELSE IF n < 0 THEN -1 ELSE 0

Max(a, b) == IF a < b THEN b ELSE a

RECURSIVE Gcd(_, _)
Gcd(a, b) == IF b = 0 THEN a ELSE Gcd(b, a % b)

(* the rational n/d in lowest terms; d = 0 gives an IEEE special *)
Mk(n, d) ==
    IF d = 0 THEN <<Sgn(n), 0>>
    ELSE LET g == Gcd(Abs(n), Abs(d))
             s == Sgn(d)
         IN  <<(s * n) \div g, (s * d) \div g>>

Num(n) == <<n, 1>>

zero == Num(0)

one == Num(1)

NaN == <<0, 0>>

IsFinite(x) == x[2] # 0

IsNaN(x) == x = NaN

RNeg(x) == <<-x[1], x[2]>>

RAbs(x) == <<Abs(x[1]), x[2]>>

RAdd(x, y) ==
    IF IsFinite(x) /\ IsFinite(y)
    THEN LET g == Gcd(x[2], y[2])
         IN  Mk(x[1] * (y[2] \div g) + y[1] * (x[2] \div g), (x[2] \div g) * y[2])
    ELSE IF IsNaN(x) \/ IsNaN(y) THEN NaN
    ELSE IF IsFinite(x) THEN y
    ELSE IF IsFinite(y) THEN x
    ELSE IF x = y THEN x ELSE NaN

RSub(x, y) == RAdd(x, RNeg(y))

RMul(x, y) ==
    IF IsFinite(x) /\ IsFinite(y)
    THEN LET g1 == Gcd(Abs(x[1]), y[2])
             g2 == Gcd(Abs(y[1]), x[2])
         IN  Mk((x[1] \div g1) * (y[1] \div g2), (x[2] \div g2) * (y[2] \div g1))
    ELSE <<Sgn(x[1]) * Sgn(y[1]), 0>>

RInv(y) ==
    IF IsNaN(y) THEN NaN
    ELSE IF ~IsFinite(y) THEN zero
    ELSE Mk(y[2], y[1])

RDiv(x, y) == RMul(x, RInv(y))

(* x < y as the hardware compares: false when either side is NaN *)
RLess(x, y) ==
    IF IsNaN(x) \/ IsNaN(y) THEN FALSE
    ELSE IF IsFinite(x) /\ IsFinite(y) THEN x[1] * y[2] < y[1] * x[2]
    ELSE IF IsFinite(x) THEN y[1] > 0
    ELSE IF IsFinite(y) THEN x[1] < 0
    ELSE x[1] < y[1]

(* n * b^k < d for n >= 0, d > 0, without leaving the integer range *)
RECURSIVE ScaledLess(_, _, _, _)
ScaledLess(n, d, b, k) ==
    IF n = 0 THEN TRUE
    ELSE IF k = 0 THEN n < d
    ELSE IF n > (d - 1) \div b THEN FALSE
    ELSE ScaledLess(n * b, d, b, k - 1)

(* A tolerance b^(-k) is written <<b, k>>; <<0, 0>> is the tolerance 0. *)
(* polynomial_specification<double>::epsilon = 1e-5 *)
epsilon == <<10, 5>>

(* std::numeric_limits<double>::epsilon() = 2^-52, the default tolerance of utils.h *)
machine_epsilon == <<2, 52>>

RECURSIVE IntPow(_, _)
IntPow(b, k) == IF k = 0 THEN 1 ELSE b * IntPow(b, k - 1)

(* the value of a tolerance as a scalar *)
TolValue(tol) == Mk(1, IntPow(tol[1], tol[2]))

(* utils.h nearly_zero: std::abs(a) < epsilon *)
nearly_zero(a, tol) ==
    tol[1] # 0 /\ IsFinite(a) /\ ScaledLess(Abs(a[1]), a[2], tol[1], tol[2])

(* utils.h nearly_equal: nearly_zero(a - b, epsilon) *)
nearly_equal(a, b, tol) == nearly_zero(RSub(a, b), tol)

(* std::round: to the nearest integer, halves away from zero *)
Round(x) ==
    IF ~IsFinite(x) THEN x
    ELSE Num(Sgn(x[1]) * ((2 * Abs(x[1]) + x[2]) \div (2 * x[2])))

----------------------------------------------------------------------------
(* polynomial<T> *)

(* stand-in for the value of size_t(0) - 1 *)
SIZE_MAX == 2147483647

Last(c) == c[Len(c)]

RECURSIVE trim_coefficients(_)
trim_coefficients(c) ==
    IF Len(c) > 1 /\ nearly_zero(Last(c), epsilon)
    THEN trim_coefficients(SubSeq(c, 1, Len(c) - 1))
    ELSE c

(* polynomial(const values_type&) and polynomial(initializer_list) *)
polynomial(coeffs) == trim_coefficients(coeffs)

(* polynomial() *)
polynomial_default == <<zero>>

(* polynomial::zero() *)
poly_zero == polynomial(<<zero>>)

(* polynomial::one() *)
poly_one == polynomial(<<one>>)

degree(c) == IF Len(c) = 0 THEN SIZE_MAX ELSE Len(c) - 1

leading_coefficient(c) == Last(c)

(* the const at(): zero beyond the degree *)
at(c, i) == IF i > degree(c) THEN zero ELSE c[i + 1]

monomial(deg, coeff) ==
    polynomial([i \in 1..(deg + 1) |-> IF i = deg + 1 THEN coeff ELSE zero])

is_zero(c) == degree(c) = 0 /\ nearly_zero(leading_coefficient(c), epsilon)

is_constant(c) == degree(c) = 0

is_normalized(c) == nearly_equal(leading_coefficient(c), one, epsilon)

is_integer(c) == \A i \in 1..Len(c) : nearly_equal(c[i], Round(c[i]), epsilon)

to_integer(c) == trim_coefficients([i \in 1..Len(c) |-> Round(c[i])])

(* operator== *)
poly_eq(a, b) ==
    /\ degree(a) = degree(b)
    /\ \A i \in 1..Len(a) : nearly_equal(a[i], b[i], epsilon)

(* operator*(value_type) and operator/(value_type): a new, trimmed value *)
scalar_mul(c, s) == polynomial([i \in 1..Len(c) |-> RMul(c[i], s)])

scalar_div(c, s) == polynomial([i \in 1..Len(c) |-> RDiv(c[i], s)])

(* operator+(value_type) *)
scalar_add(c, s) == polynomial([i \in 1..Len(c) |-> IF i = 1 THEN RAdd(c[1], s) ELSE c[i]])

(* operator+(const polynomial&) *)
poly_add(a, b) ==
    trim_coefficients([i \in 1..(Max(degree(a), degree(b)) + 1) |->
                          RAdd(at(a, i - 1), at(b, i - 1))])

(* operator-(const polynomial&): *this + (-1) * p *)
poly_sub(a, b) == poly_add(a, scalar_mul(b, Num(-1)))

(* operator-() *)
poly_neg(a) == scalar_mul(a, Num(-1))

RECURSIVE ConvSum(_, _, _, _)
ConvSum(a, b, k, i) ==
    IF i > Len(b) THEN zero
    ELSE IF k - i + 1 >= 1 /\ k - i + 1 <= Len(a)
         THEN RAdd(RMul(b[i], a[k - i + 1]), ConvSum(a, b, k, i + 1))
         ELSE ConvSum(a, b, k, i + 1)

(* operator*(const polynomial&): product[i + j] += p[i] * at(j) *)
poly_mul(a, b) ==
    trim_coefficients([k \in 1..(degree(a) + degree(b) + 1) |-> ConvSum(a, b, k, 1)])

normalize(c) == scalar_div(c, leading_coefficient(c))

derive(c) ==
    IF is_constant(c) THEN poly_zero
    ELSE trim_coefficients([i \in 1..(Len(c) - 1) |-> RMul(Num(i), c[i + 1])])

(* integrate(): the result is not trimmed *)
integrate(c) ==
    IF is_constant(c) THEN polynomial(<<zero, at(c, 0)>>)
    ELSE [i \in 1..(Len(c) + 1) |-> IF i = 1 THEN zero ELSE RMul(Mk(1, i - 1), c[i - 1])]

RECURSIVE Horner(_, _, _, _)
Horner(c, x, i, value) ==
    IF i < 1 THEN value ELSE Horner(c, x, i - 1, RAdd(RMul(value, x), c[i]))

evaluate(c, x) == Horner(c, x, Len(c) - 1, leading_coefficient(c))

RECURSIVE PowLoop(_, _, _)
PowLoop(power, base, exponent) ==
    IF exponent > 0
    THEN PowLoop(IF exponent % 2 = 1 THEN poly_mul(power, base) ELSE power,
                 poly_mul(base, base), exponent \div 2)
    ELSE power

pow(c, exponent) ==
    IF exponent = 0 THEN poly_one
    ELSE IF exponent = 1 THEN c
    ELSE IF exponent = 2 THEN poly_mul(c, c)
    ELSE PowLoop(poly_one, c, exponent)

(* compose(q): the sum of at(i) * q.pow(i) over i = 0..degree() *)
RECURSIVE ComposeLoop(_, _, _, _)
ComposeLoop(c, inner, i, composition) ==
    IF i > degree(c) THEN composition
    ELSE ComposeLoop(c, inner, i + 1,
                     poly_add(composition, scalar_mul(pow(inner, i), at(c, i))))

compose(c, inner) == ComposeLoop(c, inner, 0, poly_zero)

(* from_roots with the single root entered without its sign *)
from_roots_unsigned(roots) ==
    IF Len(roots) = 0 THEN poly_one
    ELSE polynomial(<<roots[1], one>>)

RECURSIVE FromRootsLoop(_, _, _)
FromRootsLoop(acc, roots, i) ==
    IF i > Len(roots) THEN acc
    ELSE FromRootsLoop(poly_mul(acc, scalar_add(monomial(1, one), RNeg(roots[i]))), roots, i + 1)

from_roots(roots) ==
    IF Len(roots) = 0 THEN poly_one
    ELSE IF Len(roots) = 1 THEN polynomial(<<RNeg(roots[1]), one>>)
    ELSE normalize(FromRootsLoop(poly_one, roots, 1))

(* A call either returns (st = "ok", or "none" for an empty optional) or *)
(* does not return (st = "diverges").                                     *)
Diverged == [st |-> "diverges"]

None == [st |-> "none"]

(* The loop of divide().  An iteration that leaves q and r as they were   *)
(* is repeated for ever: the call does not return.                        *)
RECURSIVE DivideLoop(_, _, _)
DivideLoop(quot, r, divisor) ==
    LET delta == degree(r) - degree(divisor)
    IN  IF ~(~poly_eq(r, poly_zero) /\ delta >= 0)
        THEN [st |-> "ok", quot |-> quot, rem |-> r]
        ELSE LET t  == scalar_mul(monomial(delta, one),
                                  RDiv(leading_coefficient(r), leading_coefficient(divisor)))
                 q2 == poly_add(quot, t)
                 r2 == poly_sub(r, poly_mul(divisor, t))
             IN  IF q2 = quot /\ r2 = r THEN Diverged
                 ELSE DivideLoop(q2, r2, divisor)

divide(c, divisor) == DivideLoop(poly_zero, c, divisor)

(* operator/ and operator%: get<0> and get<1> of divide *)
poly_div(c, divisor) ==
    LET d == divide(c, divisor)
    IN  IF d.st = "ok" THEN [st |-> "ok", value |-> d.quot] ELSE Diverged

poly_mod(c, divisor) ==
    LET d == divide(c, divisor)
    IN  IF d.st = "ok" THEN [st |-> "ok", value |-> d.rem] ELSE Diverged

----------------------------------------------------------------------------
(* euclidean_algorithm<T> *)

RECURSIVE EuclideanLoop(_, _)
EuclideanLoop(a, b) ==
    IF ~is_zero(b)
    THEN LET r == poly_mod(a, b)
         IN  IF r.st = "ok" THEN EuclideanLoop(b, r.value) ELSE Diverged
    ELSE [st |-> "ok", value |-> normalize(a)]

euclidean(a, b) == EuclideanLoop(a, b)

RECURSIVE ExtendedLoop(_, _, _, _, _, _)
ExtendedLoop(a, b, a1, a2, b1, b2) ==
    IF ~is_zero(b)
    THEN LET d == divide(a, b)
         IN  IF d.st = "ok"
             THEN ExtendedLoop(b, d.rem, b1, b2,
                               poly_sub(a1, poly_mul(d.quot, b1)),
                               poly_sub(a2, poly_mul(d.quot, b2)))
             ELSE Diverged
    ELSE [st |-> "ok", s |-> a1, t |-> a2, g |-> a]

extended_euclidean(a, b) == ExtendedLoop(a, b, poly_one, poly_zero, poly_zero, poly_one)

----------------------------------------------------------------------------
(* square_free_decomposition<T> *)

is_square_free(c) ==
    LET g == euclidean(c, derive(c))
    IN  IF g.st = "ok" THEN [st |-> "ok", value |-> is_constant(g.value)] ELSE Diverged

(* static_cast<long>: towards zero *)
Trunc(x) == Sgn(x[1]) * (Abs(x[1]) \div x[2])

RECURSIVE ContentLoop(_, _, _)
ContentLoop(c, i, g) ==
    IF i > Len(c) THEN g ELSE ContentLoop(c, i + 1, Gcd(g, Abs(Trunc(c[i]))))

content(c) ==
    IF ~is_integer(c) THEN None
    ELSE [st |-> "ok", value |-> Num(ContentLoop(c, 1, 0))]

(* the primitive part taken without the integer test of content() *)
primitive_part_unchecked(c) == [st |-> "ok", value |-> c]

primitive_part(c) ==
    LET ct == content(c)
    IN  IF ct.st = "ok" THEN [st |-> "ok", value |-> scalar_div(c, ct.value)] ELSE None

RECURSIVE FromSquareFreeLoop(_, _, _)
FromSquareFreeLoop(acc, seq, k) ==
    IF k > Len(seq) THEN acc
    ELSE FromSquareFreeLoop(poly_mul(acc, pow(seq[k], k)), seq, k + 1)

from_square_free_decomposition(seq) == FromSquareFreeLoop(poly_one, seq, 1)

(* iterations of the while loop of yun_algorithm that are followed before giving up *)
MaxYunIter == 6

(* The while loop of yun_algorithm: b, d and the last factor q are the    *)
(* variables of the loop, seq the factors pushed so far.                  *)
RECURSIVE YunLoop(_, _, _, _, _)
YunStep(b2, c2, seq, fuel) ==
    IF b2.st # "ok" \/ c2.st # "ok" THEN Diverged
    ELSE YunLoop(b2.value, poly_sub(c2.value, derive(b2.value)),
                 euclidean(b2.value, poly_sub(c2.value, derive(b2.value))), seq, fuel)

(* the loop pushing the kernel b itself as the last factor *)
YunLoopPushKernel(b, d, f, seq, fuel) ==
    IF f.st # "ok" THEN Diverged
    ELSE IF is_zero(d) THEN [st |-> "ok", value |-> Append(seq, b), b |-> b, d |-> d]
    ELSE IF fuel = 0 THEN [st |-> "exhausted"]
    ELSE YunStep(poly_div(b, f.value), poly_div(d, f.value), Append(seq, f.value), fuel - 1)

(* b and d of the result are the values of b and d when the loop is left *)
YunLoop(b, d, f, seq, fuel) ==
    IF f.st # "ok" THEN Diverged
    ELSE IF is_zero(d) THEN [st |-> "ok", value |-> Append(seq, f.value), b |-> b, d |-> d]
    ELSE IF fuel = 0 THEN [st |-> "exhausted"]
    ELSE YunStep(poly_div(b, f.value), poly_div(d, f.value), Append(seq, f.value), fuel - 1)

(* yun_algorithm from the gcd q of pp and its derivative on *)
YunDecompose(pp, g) ==
    IF g.st # "ok" THEN Diverged
    ELSE YunStep(poly_div(pp, to_integer(g.value)),
                 poly_div(derive(pp), to_integer(g.value)), <<>>, MaxYunIter)

(* the lambda given to primitive_part(p).transform *)
YunPrimitive(prim) ==
    IF prim.st # "ok" THEN None
    ELSE YunDecompose(prim.value, euclidean(prim.value, derive(prim.value)))

(* the short-circuit returning the monic form of p in place of p *)
YunSquareFreeNormalized(c, sf) ==
    IF sf.st # "ok" THEN Diverged
    ELSE IF sf.value THEN [st |-> "ok", value |-> <<normalize(c)>>]
    ELSE YunPrimitive(primitive_part(c))

YunSquareFree(c, sf) ==
    IF sf.st # "ok" THEN Diverged
    ELSE IF sf.value THEN [st |-> "ok", value |-> <<c>>]
    ELSE YunPrimitive(primitive_part(c))

yun_algorithm(c) == YunSquareFree(c, is_square_free(c))

----------------------------------------------------------------------------
(* real_interval<T> and real_polynomial_root_finder<T> *)

(* real_interval(a, b, lower = closed, upper = closed) *)
real_interval(a, b, lower, upper) ==
    [lower |-> a, upper |-> b, lower_ |-> lower, upper_ |-> upper]

real_interval_default(a, b) == real_interval(a, b, "closed", "closed")

is_lower_open(I) == I.lower_ = "opened"

is_upper_closed(I) == I.upper_ = "closed"

(* sequence[i] >= 0 ? 1 : -1 *)
SignOf(x) == IF ~IsNaN(x) /\ x[1] >= 0 THEN 1 ELSE -1

RECURSIVE SignChangesLoop(_, _, _, _, _)
SignChangesLoop(sequence, tol, i, prev_sign, changes) ==
    IF i > Len(sequence) THEN changes
    ELSE IF nearly_zero(sequence[i], tol)
         THEN SignChangesLoop(sequence, tol, i + 1, prev_sign, changes)
         ELSE IF SignOf(sequence[i]) # prev_sign
              THEN SignChangesLoop(sequence, tol, i + 1, SignOf(sequence[i]), changes + 1)
              ELSE SignChangesLoop(sequence, tol, i + 1, prev_sign, changes)

(* xmath::sign_changes(sequence, epsilon) *)
sign_changes(sequence, tol) ==
    IF Len(sequence) <= 1 THEN 0
    ELSE SignChangesLoop(sequence, tol, 2, SignOf(sequence[1]), 0)

(* the default tolerance of sign_changes, 1e-5 *)
sign_changes_epsilon == <<10, 5>>

RECURSIVE SignVariationsLoop(_, _, _, _)
SignVariationsLoop(seq, x, i, variations) ==
    IF i > Len(seq) THEN variations
    ELSE LET y == evaluate(seq[i], x)
         IN  IF ~nearly_zero(y, machine_epsilon)
             THEN SignVariationsLoop(seq, x, i + 1,
                                     Append(variations, IF RLess(y, zero) THEN Num(-1) ELSE Num(1)))
             ELSE SignVariationsLoop(seq, x, i + 1, variations)

sign_variations(seq, x) == SignVariationsLoop(seq, x, 1, <<>>)

RECURSIVE CauchyMax(_, _, _)
CauchyMax(c, i, max) ==
    IF i > Len(c) - 1 THEN max
    ELSE CauchyMax(c, i + 1, IF RLess(max, RAbs(c[i])) THEN RAbs(c[i]) ELSE max)

cauchy_bounds(c) ==
    IF is_zero(c) THEN None
    ELSE [st |-> "ok",
          value |-> RAdd(one, RDiv(CauchyMax(c, 1, zero), RAbs(leading_coefficient(c))))]

(* the std::accumulate of lagrange_bounds over all but the last coefficient *)
RECURSIVE LagrangeSum(_, _, _, _)
LagrangeSum(c, i, lc, s) ==
    IF i > Len(c) - 1 THEN s
    ELSE LagrangeSum(c, i + 1, lc, RAdd(s, RAbs(RDiv(c[i], lc))))

(* std::max(one, sum): sum only when one < sum *)
LagrangeMax(sum) == IF RLess(one, sum) THEN sum ELSE one

lagrange_bounds(c) ==
    IF is_zero(c) THEN None
    ELSE [st |-> "ok", value |-> LagrangeMax(LagrangeSum(c, 1, leading_coefficient(c), zero))]

RECURSIVE SturmLoop(_, _)
SturmLoop(seq, i) ==
    IF ~is_constant(seq[i])
    THEN LET r == poly_mod(seq[i - 1], seq[i])
         IN  IF r.st = "ok" THEN SturmLoop(Append(seq, poly_neg(r.value)), i + 1)
             ELSE Diverged
    ELSE [st |-> "ok", value |-> seq]

sturm_sequence(c) == SturmLoop(<<c, derive(c)>>, 2)

(* the difference of the two size_t counts, read as an int *)
number_of_roots(seq, I) ==
    sign_changes(sign_variations(seq, I.lower), sign_changes_epsilon)
        - sign_changes(sign_variations(seq, I.upper), sign_changes_epsilon)

CountRoots(seq, I) ==
    IF seq.st # "ok" THEN Diverged
    ELSE [st |-> "ok", value |-> number_of_roots(seq.value, I)]

(* the count taken without the test of is_square_free *)
CountWithoutSquareFreeTest(c, I, sf) ==
    IF sf.st # "ok" THEN Diverged
    ELSE CountRoots(sturm_sequence(c), I)

CountIfSquareFree(c, I, sf) ==
    IF sf.st # "ok" THEN Diverged
    ELSE IF ~sf.value THEN None
    ELSE CountRoots(sturm_sequence(c), I)

(* number_distinct_roots(p, I) *)
number_distinct_roots_in(c, I) ==
    IF ~is_lower_open(I) \/ ~is_upper_closed(I) THEN None
    ELSE CountIfSquareFree(c, I, is_square_free(c))

NumberWithin(c, bound) ==
    IF bound.st # "ok" THEN None
    ELSE number_distinct_roots_in(c,
             real_interval(RNeg(bound.value), bound.value, "opened", "closed"))

(* number_distinct_roots(p) *)
number_distinct_roots(c) == NumberWithin(c, cauchy_bounds(c))

(* recursion depth of root_isolation that is followed before giving up *)
MaxDepth == 8

(* the intervals pushed for J_left followed by those pushed for J_right *)
Joined(J_left, J_right) ==
    IF J_left.st # "ok" THEN J_left
    ELSE IF J_right.st # "ok" THEN J_right
    ELSE [st |-> "ok", value |-> J_left.value \o J_right.value]

(* c + t of the splitting branch *)
SplitPoint(c, m) ==
    RAdd(m, IF nearly_zero(evaluate(c, m), epsilon) THEN TolValue(epsilon) ELSE zero)

(* The recursive lambda of root_isolation: the intervals pushed for I,   *)
(* left sub-interval first.  r is a size_t: a negative difference wraps  *)
(* to a large count and takes the splitting branch.                      *)
RECURSIVE IsolateLoop(_, _, _, _)
(* the two recursive calls in the opposite order: right sub-interval first *)
IsolateSplitRightFirst(c, seq, I, s, fuel) ==
    Joined(IsolateLoop(c, seq, real_interval_default(s, I.upper), fuel),
           IsolateLoop(c, seq, real_interval_default(I.lower, s), fuel))

IsolateSplit(c, seq, I, s, fuel) ==
    Joined(IsolateLoop(c, seq, real_interval_default(I.lower, s), fuel),
           IsolateLoop(c, seq, real_interval_default(s, I.upper), fuel))

IsolateCount(c, seq, I, r, fuel) ==
    IF r = 0 THEN [st |-> "ok", value |-> <<>>]
    ELSE IF r = 1 THEN [st |-> "ok", value |-> <<I>>]
    ELSE IF fuel = 0 THEN [st |-> "exhausted"]
    ELSE IsolateSplit(c, seq, I,
                      SplitPoint(c, RDiv(RAdd(I.lower, I.upper), Num(2))), fuel - 1)

IsolateLoop(c, seq, I, fuel) == IsolateCount(c, seq, I, number_of_roots(seq, I), fuel)

IsolateWithin(c, seq, bound) ==
    IF seq.st # "ok" THEN Diverged
    ELSE IF bound.st # "ok" THEN [st |-> "ok", value |-> <<>>]
    ELSE IsolateLoop(c, seq.value,
                     real_interval_default(RNeg(bound.value), bound.value), MaxDepth)

IsolateIfSquareFree(c, sf) ==
    IF sf.st # "ok" THEN Diverged
    ELSE IF ~sf.value THEN [st |-> "ok", value |-> <<>>]
    ELSE IsolateWithin(c, sturm_sequence(c), cauchy_bounds(c))

root_isolation(c) ==
    IF is_constant(c) THEN [st |-> "ok", value |-> <<>>]
    ELSE IsolateIfSquareFree(c, is_square_free(c))

----------------------------------------------------------------------------
(* root_finder<T> *)

(* the endpoint test taken as a strict comparison with zero *)
greater_than_zero(a, tol) ==
    ~IsNaN(a) /\ a[1] > 0

(* utils.h greater_than_or_equal(a, 0, epsilon): a + epsilon > 0 *)
greater_than_or_equal_zero(a, tol) ==
    ~IsNaN(a) /\ (a[1] >= 0 \/ nearly_zero(a, tol))

(* iterations of the bisection loop that are followed before giving up *)
MaxBisect == 12

RECURSIVE BisectionLoop(_, _, _, _, _, _)
BisectionStep(c, a, b, m, tol, fuel) ==
    IF nearly_zero(evaluate(c, m), machine_epsilon) THEN [st |-> "ok", value |-> m]
    ELSE IF RLess(RMul(evaluate(c, m), evaluate(c, a)), zero)
         THEN BisectionLoop(c, a, m, m, tol, fuel)
         ELSE BisectionLoop(c, m, b, m, tol, fuel)

(* the while loop of the lambda of bisection; m is its variable c *)
BisectionLoop(c, a, b, m, tol, fuel) ==
    IF nearly_zero(RSub(b, a), tol) THEN [st |-> "ok", value |-> m]
    ELSE IF fuel = 0 THEN [st |-> "exhausted"]
    ELSE BisectionStep(c, a, b, RDiv(RAdd(b, a), Num(2)), tol, fuel - 1)

(* bisection(func, I, epsilon) with the polynomial c as func *)
bisection(c, I, tol) ==
    IF greater_than_or_equal_zero(RMul(evaluate(c, I.lower), evaluate(c, I.upper)), tol)
    THEN None
    ELSE BisectionLoop(c, I.lower, I.upper, I.lower, tol, MaxBisect)

(* iterations of the regula falsi loop that are followed before giving up *)
MaxFalsi == 2

(* the secant point (a * func(b) - b * func(a)) / (func(b) - func(a)) *)
Secant(a, b, fa, fb) ==
    RDiv(RSub(RMul(a, fb), RMul(b, fa)), RSub(fb, fa))

RECURSIVE RegulaFalsiLoop(_, _, _, _, _, _)
RegulaFalsiStep(c, a, b, m, tol, fuel) ==
    IF nearly_zero(evaluate(c, m), tol) THEN [st |-> "ok", value |-> m]
    ELSE IF RLess(RMul(evaluate(c, m), evaluate(c, a)), zero)
         THEN RegulaFalsiLoop(c, a, m, m, tol, fuel)
         ELSE RegulaFalsiLoop(c, m, b, m, tol, fuel)

(* the while loop of the lambda of regula_falsi; m is its variable c *)
RegulaFalsiLoop(c, a, b, m, tol, fuel) ==
    IF IsNaN(RSub(b, a)) \/ RLess(RSub(b, a), TolValue(tol)) THEN [st |-> "ok", value |-> m]
    ELSE IF fuel = 0 THEN [st |-> "exhausted"]
    ELSE RegulaFalsiStep(c, a, b, Secant(a, b, evaluate(c, a), evaluate(c, b)), tol, fuel - 1)

(* regula_falsi(func, I, epsilon) with the polynomial c as func *)
regula_falsi(c, I, tol) ==
    IF greater_than_or_equal_zero(RMul(evaluate(c, I.lower), evaluate(c, I.upper)), tol)
    THEN None
    ELSE RegulaFalsiLoop(c, I.lower, I.upper, I.lower, tol, MaxFalsi)

(* The while loop of newton_raphson with the polynomials c and dc as     *)
(* func and derive: left when std::abs(y) >= epsilon is false or when    *)
(* num_itr has reached max_iterations, and x is returned in both cases.  *)
RECURSIVE NewtonLoop(_, _, _, _, _, _)
NewtonLoop(c, dc, x, num_itr, max_iterations, tol) ==
    IF IsNaN(evaluate(c, x)) \/ nearly_zero(evaluate(c, x), tol) \/ ~(num_itr < max_iterations)
    THEN [st |-> "ok", value |-> x]
    ELSE IF nearly_zero(evaluate(dc, x), tol) THEN None
    ELSE NewtonLoop(c, dc, RSub(x, RDiv(evaluate(c, x), evaluate(dc, x))),
                    num_itr + 1, max_iterations, tol)

(* newton_raphson(func, derive, initial, max_iterations, epsilon) *)
newton_raphson(c, dc, initial, max_iterations, tol) ==
    NewtonLoop(c, dc, initial, 1, max_iterations, tol)

(* The loop over the intervals of one factor in find_roots: the          *)
(* multiplicity is pushed before the interval is refined.                *)
RECURSIVE RefineLoop(_, _, _, _, _, _)
Refined(f, k, intervals, i, tol, acc, root) ==
    IF root.st = "exhausted" THEN [st |-> "exhausted"]
    ELSE IF root.st = "ok"
         THEN RefineLoop(f, k, intervals, i + 1, tol,
                         [acc EXCEPT !.roots = Append(@, root.value),
                                     !.multiplicities = Append(@, k),
                                     !.factors = Append(@, k)])
         ELSE RefineLoop(f, k, intervals, i + 1, tol,
                         [acc EXCEPT !.multiplicities = Append(@, k)])

RefineLoop(f, k, intervals, i, tol, acc) ==
    IF i > Len(intervals) THEN acc
    ELSE Refined(f, k, intervals, i, tol, acc, bisection(f, intervals[i], tol))

(* The loop over the factors in find_roots; k is the 1-based index. *)
RECURSIVE FactorLoop(_, _, _, _)
FactorDone(square_free_seq, k, tol, acc) ==
    IF acc.st # "ok" THEN acc
    ELSE FactorLoop(square_free_seq, k + 1, tol, acc)

FactorIsolated(square_free_seq, k, tol, acc, intervals) ==
    IF intervals.st # "ok" THEN [st |-> intervals.st]
    ELSE FactorDone(square_free_seq, k, tol,
                    RefineLoop(square_free_seq[k], k, intervals.value, 1, tol, acc))

FactorLoop(square_free_seq, k, tol, acc) ==
    IF k > Len(square_free_seq) THEN acc
    ELSE FactorIsolated(square_free_seq, k, tol, acc, root_isolation(square_free_seq[k]))

FindRootsOf(y, tol) ==
    IF y.st = "none" THEN [st |-> "throws"]
    ELSE IF y.st # "ok" THEN [st |-> y.st]
    ELSE FactorLoop(y.value, 1, tol,
                    [st |-> "ok", roots |-> <<>>, multiplicities |-> <<>>, factors |-> <<>>])

(* find_roots(p, epsilon).  factors[i] is the 1-based index of the       *)
(* factor whose interval roots[i] was refined from.                      *)
find_roots(c, tol) == FindRootsOf(yun_algorithm(c), tol)

----------------------------------------------------------------------------
(* Inputs *)

(* largest magnitude of an integer input coefficient *)
MaxCoef == 2

(* largest degree of the dividend and of the divisor *)
MaxDegP == 2

MaxDegQ == 1

(* 1.5e-5: just above epsilon, its half is below *)
Small == Mk(3, 200000)

IntCoefs == {Num(k) : k \in (-1)..MaxCoef}

CoefSeqs(n, coefs) == UNION {[1..m -> coefs] : m \in 1..n}

Polys(maxdeg, coefs) == {polynomial(c) : c \in CoefSeqs(maxdeg + 1, coefs)}

----------------------------------------------------------------------------
(* Division and the Euclidean algorithm on a pair of polynomials *)

InitDiv ==
    /\ p \in Polys(MaxDegP, IntCoefs \cup {Small})
    /\ q \in Polys(MaxDegQ, IntCoefs)
    /\ op = "init"
    /\ arg = <<>>
    /\ res = None
    /\ steps = 0

Divide ==
    /\ op = "init"
    /\ op' = "divide"
    /\ res' = divide(p, q)
    /\ UNCHANGED <<p, q, arg, steps>>

Euclidean ==
    /\ op = "init"
    /\ op' = "euclidean"
    /\ res' = euclidean(p, q)
    /\ UNCHANGED <<p, q, arg, steps>>

ExtendedEuclidean ==
    /\ op = "init"
    /\ op' = "extended_euclidean"
    /\ res' = extended_euclidean(p, q)
    /\ UNCHANGED <<p, q, arg, steps>>

NextDiv == Divide \/ Euclidean \/ ExtendedEuclidean

SpecDiv == InitDiv /\ [][NextDiv]_vars

----------------------------------------------------------------------------
(* Properties of division and of the Euclidean algorithm *)

DivisionLaw(a, b, d) ==
    /\ d.st = "ok"
    /\ poly_eq(a, poly_add(poly_mul(d.quot, b), d.rem))
    /\ (degree(d.rem) < degree(b) \/ is_zero(d.rem))

(* g divides a with zero remainder *)
DividesExactly(g, a) ==
    LET d == divide(a, g)
    IN  d.st = "ok" /\ is_zero(d.rem)

(* C1: for every p and every non-zero q, p.divide(q) returns (quot, rem) *)
(* with p == quot*q + rem and rem.degree() < q.degree() or rem zero.     *)
C1_DivisionLaw ==
    (op = "divide" /\ ~is_zero(q)) => DivisionLaw(p, q, res)

(* C2: extended_euclidean(p, q) returns (s, t, g) with s*p + t*q == g,   *)
(* and g divides both p and q with zero remainder.                       *)
C2_Bezout ==
    op = "extended_euclidean" =>
        /\ res.st = "ok"
        /\ poly_eq(poly_add(poly_mul(res.s, p), poly_mul(res.t, q)), res.g)
        /\ DividesExactly(res.g, p)
        /\ DividesExactly(res.g, q)

(* C9: euclidean(p, q) terminates and returns a normalized polynomial    *)
(* that divides both p and q with zero remainder.                        *)
C9_EuclideanMonicDivisor ==
    op = "euclidean" =>
        /\ res.st = "ok"
        /\ is_normalized(res.value)
        /\ DividesExactly(res.value, p)
        /\ DividesExactly(res.value, q)

(* C25: p.divide(q) terminates for every polynomial p and every non-zero *)
(* divisor q, also when the ratio of the leading coefficients is smaller  *)
(* in magnitude than epsilon.                                             *)
C25_DivideTerminates ==
    (op = "divide" /\ ~is_zero(q)) => res.st = "ok"

----------------------------------------------------------------------------
(* Square-free decomposition of one polynomial *)

(* largest integer coefficient and largest degree of the inputs of Yun *)
MaxYunCoef == 4

MaxYunDeg == 2

YunCoefs == {Num(k) : k \in (-1)..MaxYunCoef} \cup {Mk(1, 2)}

InitYun ==
    /\ p \in Polys(MaxYunDeg, YunCoefs)
    /\ q = poly_zero
    /\ op = "init"
    /\ arg = <<>>
    /\ res = None
    /\ steps = 0

IsSquareFree ==
    /\ op = "init"
    /\ op' = "is_square_free"
    /\ res' = is_square_free(p)
    /\ UNCHANGED <<p, q, arg, steps>>

YunAlgorithm ==
    /\ op = "init"
    /\ op' = "yun_algorithm"
    /\ res' = yun_algorithm(p)
    /\ UNCHANGED <<p, q, arg, steps>>

NextYun == IsSquareFree \/ YunAlgorithm

SpecYun == InitYun /\ [][NextYun]_vars

(* a == b up to division by the leading coefficient *)
EqualUpToLeadingCoefficient(a, b) ==
    poly_eq(a, b) \/ poly_eq(normalize(a), normalize(b))

(* C3: for every p with integer coefficients, monic or not,              *)
(* from_square_free_decomposition(yun_algorithm(p)) equals p up to       *)
(* division by the leading coefficient.                                  *)
C3_YunRoundTrip ==
    (op = "yun_algorithm" /\ is_integer(p)) =>
        /\ res.st = "ok"
        /\ EqualUpToLeadingCoefficient(from_square_free_decomposition(res.value), p)

(* C10 as stated: yun_algorithm(p) returns no result whenever some      *)
(* coefficient of p is not within epsilon of an integer.                 *)
C10_YunNoneIfNotInteger ==
    (op = "yun_algorithm" /\ ~is_integer(p)) => res.st = "none"

ReportedNotSquareFree(c) ==
    LET sf == is_square_free(c) IN sf.st = "ok" /\ ~sf.value

(* C10 amended: yun_algorithm(p) returns no result whenever some         *)
(* coefficient of p is not within epsilon of an integer and              *)
(* is_square_free(p) is false.                                           *)
C10_YunNoneIfNotIntegerNotSquareFree ==
    (op = "yun_algorithm" /\ ~is_integer(p) /\ ReportedNotSquareFree(p)) => res.st = "none"

C10_Witness ==
    op = "yun_algorithm" /\ ~is_integer(p) /\ ReportedNotSquareFree(p) /\ res.st = "none"

(* is_square_free(c) returns true *)
ReportedSquareFree(c) ==
    LET sf == is_square_free(c) IN sf.st = "ok" /\ sf.value

(* C11: for every p for which is_square_free(p) is true,                 *)
(* yun_algorithm(p) returns the one-element sequence [p], with p neither *)
(* normalized nor reduced to its primitive part.                         *)
C11_YunShortCircuit ==
    (op = "yun_algorithm" /\ ReportedSquareFree(p)) => res = [st |-> "ok", value |-> <<p>>]

(* a square-free p that is neither monic nor primitive is returned as is *)
C11_Witness ==
    /\ op = "yun_algorithm"
    /\ ReportedSquareFree(p)
    /\ degree(p) >= 1
    /\ ~is_normalized(p)
    /\ primitive_part(p).st = "ok"
    /\ primitive_part(p).value # p
    /\ res = [st |-> "ok", value |-> <<p>>]

(* the euclidean gcd of a and b is constant *)
Coprime(a, b) ==
    LET g == euclidean(a, b) IN g.st = "ok" /\ is_constant(g.value)

(* every factor is square-free and any two factors are coprime *)
SquareFreeCoprimeFactors(seq) ==
    /\ \A i \in DOMAIN seq : ReportedSquareFree(seq[i])
    /\ \A i, j \in DOMAIN seq : i # j => Coprime(seq[i], seq[j])

----------------------------------------------------------------------------
(* A polynomial object under the public operations of polynomial<T>.     *)
(* p is the object, q the polynomial operand of the last operation.      *)
(* The value constructor accepts an empty vector; every other member     *)
(* reads coeffs_.back() or coeffs_[0], so no operation is applied to an  *)
(* object without coefficients.                                          *)

(* number of operations applied to the object *)
MaxSteps == 2

(* longest coefficient vector handed to the constructor *)
MaxLen == 3

Scalars == {Num(0), Num(-1), Num(2), Mk(1, 2)}

CtorCoefs == {Num(0), Num(1), Small}

CtorSeqs == UNION {[1..m -> CtorCoefs] : m \in 0..MaxLen}

Operands == Polys(1, {Num(0), Num(1)})

InitPoly ==
    /\ p = polynomial_default
    /\ q = poly_zero
    /\ op = "polynomial"
    /\ arg = <<>>
    /\ res = None
    /\ steps = 0

(* the object becomes v by the operation name, with operand b *)
Becomes(name, v, b) ==
    /\ p' = v
    /\ q' = b
    /\ op' = name
    /\ steps' = steps + 1
    /\ UNCHANGED <<arg, res>>

Construct ==
    /\ steps < MaxSteps
    /\ \E c \in CtorSeqs : Becomes("polynomial", polynomial(c), poly_zero)

Monomial ==
    /\ steps < MaxSteps
    /\ \E d \in 0..(MaxLen - 1), s \in Scalars : Becomes("monomial", monomial(d, s), poly_zero)

FromRoots ==
    /\ steps < MaxSteps
    /\ \E r \in UNION {[1..m -> Scalars] : m \in 0..2} :
        Becomes("from_roots", from_roots(r), poly_zero)

PlusScalar ==
    /\ steps < MaxSteps
    /\ Len(p) >= 1
    /\ \E s \in Scalars : Becomes("operator+", scalar_add(p, s), poly_zero)

MinusScalar ==
    /\ steps < MaxSteps
    /\ Len(p) >= 1
    /\ \E s \in Scalars : Becomes("operator-", scalar_add(p, RNeg(s)), poly_zero)

TimesScalar ==
    /\ steps < MaxSteps
    /\ Len(p) >= 1
    /\ \E s \in Scalars : Becomes("operator*", scalar_mul(p, s), poly_zero)

(* operator+=(value_type), operator-=(value_type): at(0) changes, no trim *)
PlusAssignScalar ==
    /\ steps < MaxSteps
    /\ Len(p) >= 1
    /\ \E s \in Scalars : Becomes("operator+=", [p EXCEPT ![1] = RAdd(@, s)], poly_zero)

MinusAssignScalar ==
    /\ steps < MaxSteps
    /\ Len(p) >= 1
    /\ \E s \in Scalars : Becomes("operator-=", [p EXCEPT ![1] = RSub(@, s)], poly_zero)

(* operator*=(value_type), operator/=(value_type): every coefficient, no trim *)
TimesAssignScalar ==
    /\ steps < MaxSteps
    /\ Len(p) >= 1
    /\ \E s \in Scalars :
          Becomes("operator*=", [i \in 1..Len(p) |-> RMul(p[i], s)], poly_zero)

DivAssignScalar ==
    /\ steps < MaxSteps
    /\ Len(p) >= 1
    /\ \E s \in Scalars :
          Becomes("operator/=", [i \in 1..Len(p) |-> RDiv(p[i], s)], poly_zero)

Plus ==
    /\ steps < MaxSteps
    /\ Len(p) >= 1
    /\ \E b \in Operands : Becomes("operator+", poly_add(p, b), b)

Minus ==
    /\ steps < MaxSteps
    /\ Len(p) >= 1
    /\ \E b \in Operands : Becomes("operator-", poly_sub(p, b), b)

Times ==
    /\ steps < MaxSteps
    /\ Len(p) >= 1
    /\ \E b \in Operands : Becomes("operator*", poly_mul(p, b), b)

(* operator+=(const polynomial&), operator-=: resize, add, trim, in a build *)
(* where the access of coeffs_[coeffs_.size()] by the loop changes nothing; *)
(* the accesses themselves are followed by PlusAssignInPlace               *)
PlusAssign ==
    /\ steps < MaxSteps
    /\ Len(p) >= 1
    /\ \E b \in Operands : Becomes("operator+=", poly_add(p, b), b)

MinusAssign ==
    /\ steps < MaxSteps
    /\ Len(p) >= 1
    /\ \E b \in Operands :
          Becomes("operator-=",
                  trim_coefficients([i \in 1..(Max(degree(p), degree(b)) + 1) |->
                                        RSub(at(p, i - 1), at(b, i - 1))]), b)

TimesAssign ==
    /\ steps < MaxSteps
    /\ Len(p) >= 1
    /\ \E b \in Operands : Becomes("operator*=", poly_mul(p, b), b)

(* operator/=(const polynomial&): takes place when the division returns *)
DivAssign ==
    /\ steps < MaxSteps
    /\ Len(p) >= 1
    /\ \E b \in Operands :
          /\ poly_div(p, b).st = "ok"
          /\ Becomes("operator/=", poly_div(p, b).value, b)

Derive ==
    /\ steps < MaxSteps
    /\ Len(p) >= 1
    /\ Becomes("derive", derive(p), poly_zero)

Integrate ==
    /\ steps < MaxSteps
    /\ Len(p) >= 1
    /\ Becomes("integrate", integrate(p), poly_zero)

Normalize ==
    /\ steps < MaxSteps
    /\ Len(p) >= 1
    /\ Becomes("normalize", normalize(p), poly_zero)

ToInteger ==
    /\ steps < MaxSteps
    /\ Len(p) >= 1
    /\ Becomes("to_integer", to_integer(p), poly_zero)

(* a write through the reference returned by at() or operator[] *)
WriteAt ==
    /\ steps < MaxSteps
    /\ Len(p) >= 1
    /\ \E i \in 1..Len(p), s \in Scalars : Becomes("at", [p EXCEPT ![i] = s], poly_zero)

NextPoly ==
    \/ Construct \/ Monomial \/ FromRoots
    \/ PlusScalar \/ MinusScalar \/ TimesScalar
    \/ PlusAssignScalar \/ MinusAssignScalar \/ TimesAssignScalar \/ DivAssignScalar
    \/ Plus \/ Minus \/ Times
    \/ PlusAssign \/ MinusAssign \/ TimesAssign \/ DivAssign
    \/ Derive \/ Integrate \/ Normalize \/ ToInteger \/ WriteAt

SpecPoly == InitPoly /\ [][NextPoly]_vars

(* C7: after any sequence of public operations the leading coefficient   *)
(* is not within epsilon of zero, unless the value is the degree-0 zero  *)
(* polynomial.                                                           *)
C7_TrimInvariant ==
    Len(p) >= 1 => (~nearly_zero(leading_coefficient(p), epsilon) \/ is_zero(p))

(* C8: every polynomial value holds at least one coefficient, so         *)
(* degree() = length - 1 is non-negative, also after construction from   *)
(* an empty coefficient sequence.                                        *)
C8_AtLeastOneCoefficient ==
    /\ Len(p) >= 1
    /\ degree(p) = Len(p) - 1

----------------------------------------------------------------------------
(* The root finder: number_distinct_roots, root_isolation and find_roots  *)
(* applied to polynomials whose real roots are known.                     *)

(* largest root and largest interval endpoint that are tried *)
MaxRoot == 2

RootValues == {Num(k) : k \in (-1)..MaxRoot} \cup {Mk(1, 2)}

(* Root sequences of the polynomials built with from_roots. *)
RootSeqs ==
    {<<r>> : r \in RootValues}
        \cup { <<Num(-1), Num(1)>>, <<Num(-1), Num(3)>>,
               <<Num(1), Num(1)>>, <<Num(-1), Num(1), Num(1)>>,
               <<Num(-500), Num(500)>> }

(* Polynomials given by their coefficients, with their real roots:        *)
(* x^2 + 1, 2x^2 - 2, 0.05x, 0.2x, 0.5x^2 - x + 0.5 and the constant 1.    *)
CoefficientInputs ==
    { [coeffs |-> <<Num(1), Num(0), Num(1)>>, roots |-> <<>>],
      [coeffs |-> <<Mk(1, 2), Num(-1), Mk(1, 2)>>, roots |-> <<Num(1), Num(1)>>],
      [coeffs |-> <<Num(-2), Num(0), Num(2)>>, roots |-> <<Num(-1), Num(1)>>],
      [coeffs |-> <<Num(0), Mk(1, 20)>>, roots |-> <<Num(0)>>],
      [coeffs |-> <<Num(0), Mk(1, 5)>>, roots |-> <<Num(0)>>],
      [coeffs |-> <<Num(1)>>, roots |-> <<>>] }

RootInputs ==
    {[coeffs |-> from_roots(rs), roots |-> rs] : rs \in RootSeqs} \cup CoefficientInputs

Endpoints == {Num(k) : k \in (-MaxRoot)..MaxRoot}

interval_bounds == {"opened", "closed"}

Intervals ==
    {real_interval(a, b, lo, up) :
        a \in Endpoints, b \in Endpoints, lo \in interval_bounds, up \in interval_bounds}

(* tolerances passed to find_roots: 1e-1 and 1e-2 *)
Tolerances == {<<10, 1>>, <<10, 2>>}

InitRoots ==
    /\ \E in \in RootInputs :
          /\ p = polynomial(in.coeffs)
          /\ \E I \in Intervals, tol \in Tolerances :
                /\ RLess(I.lower, I.upper)
                /\ arg = [roots |-> in.roots, I |-> I, epsilon |-> tol]
    /\ q = poly_zero
    /\ op = "init"
    /\ res = None
    /\ steps = 0

NumberDistinctRoots ==
    /\ op = "init"
    /\ op' = "number_distinct_roots"
    /\ res' = number_distinct_roots_in(p, arg.I)
    /\ UNCHANGED <<p, q, arg, steps>>

RootIsolation ==
    /\ op = "init"
    /\ op' = "root_isolation"
    /\ res' = root_isolation(p)
    /\ UNCHANGED <<p, q, arg, steps>>

FindRoots ==
    /\ op = "init"
    /\ op' = "find_roots"
    /\ res' = find_roots(p, arg.epsilon)
    /\ UNCHANGED <<p, q, arg, steps>>

(* number_distinct_roots(p), over the interval of the Cauchy bound *)
NumberDistinctRootsOfPolynomial ==
    /\ op = "init"
    /\ op' = "number_distinct_roots(p)"
    /\ res' = number_distinct_roots(p)
    /\ UNCHANGED <<p, q, arg, steps>>

NextRoots ==
    NumberDistinctRoots \/ NumberDistinctRootsOfPolynomial \/ RootIsolation \/ FindRoots

SpecRoots == InitRoots /\ [][NextRoots]_vars

(* the distinct real roots of p *)
RealRoots == {arg.roots[i] : i \in DOMAIN arg.roots}

(* p has no repeated root *)
SquareFree == Cardinality(RealRoots) = Len(arg.roots)

RootsIn(I) ==
    {r \in RealRoots :
        /\ IF I.lower_ = "opened" THEN RLess(I.lower, r) ELSE ~RLess(r, I.lower)
        /\ IF I.upper_ = "opened" THEN RLess(r, I.upper) ELSE ~RLess(I.upper, r)}

(* C4: for a square-free p and an interval I = (a, b] with a < b,          *)
(* number_distinct_roots(p, I) is the number of distinct real roots r of   *)
(* p with a < r <= b.                                                       *)
C4_SturmCountingLaw ==
    (/\ op = "number_distinct_roots"
     /\ SquareFree
     /\ is_lower_open(arg.I)
     /\ is_upper_closed(arg.I))
        => (/\ res.st = "ok"
            /\ res.value = Cardinality(RootsIn(arg.I)))

(* the intervals I and J have no point in common *)
Disjoint(I, J) ==
    \/ RLess(I.upper, J.lower)
    \/ RLess(J.upper, I.lower)
    \/ (I.upper = J.lower /\ (I.upper_ = "opened" \/ J.lower_ = "opened"))
    \/ (J.upper = I.lower /\ (J.upper_ = "opened" \/ I.lower_ = "opened"))

(* C5: for a square-free p, every interval I returned by root_isolation(p) *)
(* gives number_distinct_roots(p, I) = 1 and the returned intervals are    *)
(* pairwise disjoint.                                                       *)
C5_IsolationSoundness ==
    (op = "root_isolation" /\ SquareFree /\ res.st = "ok")
        => (/\ \A i \in DOMAIN res.value :
                  number_distinct_roots_in(p, res.value[i]) = [st |-> "ok", value |-> 1]
            /\ \A i, j \in DOMAIN res.value :
                  i # j => Disjoint(res.value[i], res.value[j]))

(* C6: find_roots returns roots and multiplicities of the same length,     *)
(* and multiplicities[i] is k+1 for the k-th (0-based) factor of           *)
(* yun_algorithm(p) from whose isolating interval roots[i] was refined.    *)
C6_ParallelSequences ==
    (op = "find_roots" /\ res.st = "ok")
        => (/\ Len(res.roots) = Len(res.multiplicities)
            /\ \A i \in DOMAIN res.roots : res.multiplicities[i] = res.factors[i])

(* C15: for every p with is_square_free(p) false, number_distinct_roots(p) *)
(* and number_distinct_roots(p, I) return no value and root_isolation(p)  *)
(* returns an empty list.                                                  *)
C15_NonSquareFreeRejected ==
    ReportedNotSquareFree(p) =>
        /\ op \in {"number_distinct_roots", "number_distinct_roots(p)"} => res = None
        /\ op = "root_isolation" => res = [st |-> "ok", value |-> <<>>]

(* a polynomial with a double root inside a half-open interval (a, b] *)
C15_Witness ==
    /\ ReportedNotSquareFree(p)
    /\ op = "number_distinct_roots"
    /\ is_lower_open(arg.I)
    /\ is_upper_closed(arg.I)
    /\ RootsIn(arg.I) # {}
    /\ res = None

(* C16: root_isolation terminates for every square-free p: the call      *)
(* returns its list of intervals, every recursive call being made on a   *)
(* proper interval strictly shorter than its parent.                      *)
C16_RootIsolationTerminates ==
    (op = "root_isolation" /\ SquareFree) => res.st = "ok"

(* C21: find_roots never propagates a failure: when yun_algorithm(p)     *)
(* yields no value, find_roots(p) returns two empty lists instead of     *)
(* raising.                                                               *)
C21_FindRootsNeverRaises ==
    (op = "find_roots" /\ yun_algorithm(p) = None) =>
        (res.st = "ok" /\ res.roots = <<>> /\ res.multiplicities = <<>>)

(* C24: for every square-free non-constant p the number of intervals    *)
(* returned by root_isolation(p) equals number_distinct_roots(p), the    *)
(* Sturm count over (-cauchy_bounds(p), cauchy_bounds(p)].               *)
C24_IsolationCount ==
    (op = "root_isolation" /\ SquareFree /\ ~is_constant(p)) =>
        /\ res.st = "ok"
        /\ number_distinct_roots(p) = [st |-> "ok", value |-> Len(res.value)]

----------------------------------------------------------------------------
(* content and primitive_part of one polynomial *)

(* largest integer coefficient and largest degree of the inputs of content *)
MaxContentCoef == 6

MaxContentDeg == 2

(* a coefficient within epsilon of the integer 2, below it *)
NearTwo == Mk(1999999, 1000000)

ContentCoefs == {Num(k) : k \in (-2)..MaxContentCoef} \cup {Mk(1, 2), NearTwo}

InitContent ==
    /\ p \in Polys(MaxContentDeg, ContentCoefs)
    /\ q = poly_zero
    /\ op = "init"
    /\ arg = <<>>
    /\ res = None
    /\ steps = 0

Content ==
    /\ op = "init"
    /\ op' = "content"
    /\ res' = content(p)
    /\ UNCHANGED <<p, q, arg, steps>>

PrimitivePart ==
    /\ op = "init"
    /\ op' = "primitive_part"
    /\ res' = primitive_part(p)
    /\ UNCHANGED <<p, q, arg, steps>>

NextContent == Content \/ PrimitivePart

SpecContent == InitContent /\ [][NextContent]_vars

(* the gcd of the coefficients c[i..], each rounded to the nearest integer *)
RECURSIVE RoundedGcd(_, _)
RoundedGcd(c, i) ==
    IF i > Len(c) THEN 0 ELSE Gcd(Abs(Round(c[i])[1]), RoundedGcd(c, i + 1))

(* C13: content(p) and primitive_part(p) return no value iff some        *)
(* coefficient of p is not within epsilon of an integer; otherwise       *)
(* content(p) is the non-negative gcd of the coefficients rounded to the *)
(* nearest integer and primitive_part(p) is p divided by it.             *)
C13_ContentPrimitivePart ==
    /\ op \in {"content", "primitive_part"} => (res.st = "none" <=> ~is_integer(p))
    /\ (op = "content" /\ is_integer(p)) =>
           res = [st |-> "ok", value |-> Num(RoundedGcd(p, 1))]
    /\ (op = "primitive_part" /\ is_integer(p)) =>
           res = [st |-> "ok", value |-> scalar_div(p, Num(RoundedGcd(p, 1)))]

----------------------------------------------------------------------------
(* The Sturm sequence of one polynomial *)

(* largest coefficient and largest degree of the inputs of sturm_sequence *)
MaxSturmCoef == 2

MaxSturmDeg == 3

(* x^3 - 640000x = (x + 800) x (x - 800) *)
WideCubic == from_roots(<<Num(-800), Num(0), Num(800)>>)

SturmInputs ==
    Polys(MaxSturmDeg, {Num(k) : k \in (-1)..MaxSturmCoef}) \cup {WideCubic}

InitSturm ==
    /\ p \in SturmInputs
    /\ q = poly_zero
    /\ op = "init"
    /\ arg = <<>>
    /\ res = None
    /\ steps = 0

SturmSequence ==
    /\ op = "init"
    /\ op' = "sturm_sequence"
    /\ res' = sturm_sequence(p)
    /\ UNCHANGED <<p, q, arg, steps>>

NextSturm == SturmSequence

SpecSturm == InitSturm /\ [][NextSturm]_vars

(* seq is built by the recurrence of the Sturm sequence of c, its degrees *)
(* fall from index 1 on and only its last element is constant.  Indices   *)
(* in the comments are the 0-based ones of the source.                    *)
IsSturmSequenceOf(seq, c) ==
    /\ Len(seq) >= 2
    /\ seq[1] = c
    /\ seq[2] = derive(c)
    /\ \A i \in 2..(Len(seq) - 1) :
          /\ poly_mod(seq[i - 1], seq[i]).st = "ok"
          /\ seq[i + 1] = poly_neg(poly_mod(seq[i - 1], seq[i]).value)
          /\ degree(seq[i + 1]) < degree(seq[i])
          /\ ~is_constant(seq[i])
    /\ is_constant(seq[Len(seq)])

(* C14: for every p, sturm_sequence(p) terminates and returns seq with    *)
(* seq[0] = p, seq[1] = p.derive(), seq[i+1] = -(seq[i-1] % seq[i]),       *)
(* degrees strictly decreasing from index 1 on and only the last element   *)
(* constant.                                                               *)
C14_SturmSequence ==
    op = "sturm_sequence" => (res.st = "ok" /\ IsSturmSequenceOf(res.value, p))

----------------------------------------------------------------------------
(* bisection and regula_falsi of a polynomial function over an interval *)

MaxRefineCoef == 1
MaxRefineDeg == 1

RefineIntervals ==
    {real_interval_default(a, b) : a \in Endpoints, b \in Endpoints}
        \cup {real_interval_default(Mk(-1, 2), Mk(1, 2))}

(* tolerances passed to bisection and regula_falsi: 0.5 and 0.1 *)
RefineTolerances == {<<2, 1>>, <<10, 1>>}

InitRefine ==
    /\ p \in Polys(MaxRefineDeg, {Num(k) : k \in (-MaxRefineCoef)..MaxRefineCoef})
    /\ q = poly_zero
    /\ arg \in [I : RefineIntervals, epsilon : RefineTolerances]
    /\ op = "init"
    /\ res = None
    /\ steps = 0

Bisection ==
    /\ op = "init"
    /\ op' = "bisection"
    /\ res' = bisection(p, arg.I, arg.epsilon)
    /\ UNCHANGED <<p, q, arg, steps>>

RegulaFalsi ==
    /\ op = "init"
    /\ op' = "regula_falsi"
    /\ res' = regula_falsi(p, arg.I, arg.epsilon)
    /\ UNCHANGED <<p, q, arg, steps>>

NextRefine == Bisection \/ RegulaFalsi

SpecRefine == InitRefine /\ [][NextRefine]_vars

(* func(I.lower) * func(I.upper) *)
EndpointProduct == RMul(evaluate(p, arg.I.lower), evaluate(p, arg.I.upper))

(* C17: bisection(f, I, eps) and regula_falsi(f, I, eps) return no value, *)
(* without entering their loop, whenever f(I.lower) * f(I.upper) is not   *)
(* negative: the same sign at both endpoints or an endpoint value of zero.*)
C17_NoSignChangeNoValue ==
    (op \in {"bisection", "regula_falsi"} /\ ~RLess(EndpointProduct, zero)) => res = None

(* regula_falsi over an interval with the root of a linear function at an *)
(* endpoint                                                               *)
C17_Witness ==
    /\ op = "regula_falsi"
    /\ degree(p) = 1
    /\ RLess(arg.I.lower, arg.I.upper)
    /\ EndpointProduct = zero
    /\ res = None

(* C26: when f(I.lower) * f(I.upper) < 0, bisection terminates and returns *)
(* a value c with I.lower <= c <= I.upper at which f is nearly zero or at  *)
(* which the halved bracket has become narrower than epsilon.              *)
C26_BisectionBracket ==
    (/\ op = "bisection"
     /\ RLess(arg.I.lower, arg.I.upper)
     /\ RLess(EndpointProduct, zero)) =>
        /\ res.st = "ok"
        /\ ~RLess(res.value, arg.I.lower)
        /\ ~RLess(arg.I.upper, res.value)

----------------------------------------------------------------------------
(* newton_raphson of a polynomial function and its derivative *)

MaxNewtonCoef == 2
MaxNewtonDeg == 2
MaxNewtonIter == 3

InitNewton ==
    /\ p \in Polys(MaxNewtonDeg, {Num(k) : k \in (-MaxNewtonCoef)..MaxNewtonCoef})
    /\ q = derive(p)
    /\ arg \in [initial : Endpoints, max_iterations : 1..MaxNewtonIter,
                epsilon : RefineTolerances]
    /\ op = "init"
    /\ res = None
    /\ steps = 0

NewtonRaphson ==
    /\ op = "init"
    /\ op' = "newton_raphson"
    /\ res' = newton_raphson(p, q, arg.initial, arg.max_iterations, arg.epsilon)
    /\ UNCHANGED <<p, q, arg, steps>>

NextNewton == NewtonRaphson

SpecNewton == InitNewton /\ [][NextNewton]_vars

(* C18: newton_raphson(f, f', x0, max_iter, eps) returns no value when    *)
(* the derivative is nearly zero at an iterate (here the initial one),    *)
(* and every value x it returns satisfies |f(x)| < eps: exhausting        *)
(* max_iter without reaching |f(x)| < eps gives no value.                 *)
C18_NewtonRaphson ==
    op = "newton_raphson" =>
        /\ nearly_zero(evaluate(q, arg.initial), arg.epsilon) => res = None
        /\ res.st = "ok" => nearly_zero(evaluate(p, res.value), arg.epsilon)

----------------------------------------------------------------------------
(* cauchy_bounds and lagrange_bounds of a polynomial object with known roots *)

MaxBoundRoot == 2
MaxBoundRoots == 2

BoundRootValues == {Num(k) : k \in (-MaxBoundRoot)..MaxBoundRoot}

BoundRootSeqs == UNION {[1..n -> BoundRootValues] : n \in 0..MaxBoundRoots}

(* the scalars of operator*=(value_type): 0, -2, 1/2 and 3 *)
BoundScalars == {zero, Num(-2), Mk(1, 2), Num(3)}

InitBounds ==
    /\ arg \in [roots : BoundRootSeqs, scalar : BoundScalars]
    /\ p = from_roots(arg.roots)
    /\ q = poly_zero
    /\ op = "init"
    /\ res = None
    /\ steps = 0

(* p *= scalar: every coefficient is multiplied, nothing is trimmed *)
ScaleInPlace ==
    /\ op = "init"
    /\ op' = "operator*="
    /\ p' = [i \in 1..Len(p) |-> RMul(p[i], arg.scalar)]
    /\ UNCHANGED <<q, arg, res, steps>>

CauchyBounds ==
    /\ op \in {"init", "operator*="}
    /\ op' = "cauchy_bounds"
    /\ res' = cauchy_bounds(p)
    /\ UNCHANGED <<p, q, arg, steps>>

LagrangeBounds ==
    /\ op \in {"init", "operator*="}
    /\ op' = "lagrange_bounds"
    /\ res' = lagrange_bounds(p)
    /\ UNCHANGED <<p, q, arg, steps>>

NextBounds == ScaleInPlace \/ CauchyBounds \/ LagrangeBounds

SpecBounds == InitBounds /\ [][NextBounds]_vars

(* every coefficient of c is zero *)
IsZeroPolynomial(c) == \A i \in DOMAIN c : c[i] = zero

(* |r| <= B for every real root r of p *)
BoundsRoots(B) ==
    \A i \in DOMAIN arg.roots : RLess(RAbs(arg.roots[i]), B) \/ RAbs(arg.roots[i]) = B

(* C19: cauchy_bounds(p) and lagrange_bounds(p) return no value exactly   *)
(* when p is the zero polynomial, and for a non-zero p the returned bound *)
(* B satisfies |r| <= B for every real root r of p.                       *)
C19_RootBounds ==
    op \in {"cauchy_bounds", "lagrange_bounds"} =>
        /\ res = None <=> IsZeroPolynomial(p)
        /\ res.st = "ok" => BoundsRoots(res.value)

----------------------------------------------------------------------------
(* division of a polynomial by the zero polynomial *)

InitDivZero ==
    /\ p \in Polys(MaxDegP, IntCoefs \cup {Small}) \cup {poly_zero}
    /\ q = poly_zero
    /\ arg = <<>>
    /\ op = "init"
    /\ res = None
    /\ steps = 0

DivideByZero ==
    /\ op = "init"
    /\ op' = "divide"
    /\ res' = divide(p, q)
    /\ UNCHANGED <<p, q, arg, steps>>

QuotientByZero ==
    /\ op = "init"
    /\ op' = "operator/"
    /\ res' = poly_div(p, q)
    /\ UNCHANGED <<p, q, arg, steps>>

RemainderByZero ==
    /\ op = "init"
    /\ op' = "operator%"
    /\ res' = poly_mod(p, q)
    /\ UNCHANGED <<p, q, arg, steps>>

NextDivZero == DivideByZero \/ QuotientByZero \/ RemainderByZero

SpecDivZero == InitDivZero /\ [][NextDivZero]_vars

(* C20: p.divide(zero), p / zero and p % zero return an absent result,   *)
(* without looping, for every p.                                          *)
C20_DivisionByZeroAbsent ==
    (op \in {"divide", "operator/", "operator%"} /\ is_zero(q)) => res = None

----------------------------------------------------------------------------
(* the operands of the non-assigning operations *)

MaxFrameCoef == 1
MaxFrameDeg == 1

(* scalars, exponents and arguments of the calls *)
FrameScalars == {Num(0), Num(2), Mk(1, 2)}

FrameExponents == {0, 1, 2, 3}

InitFrame ==
    /\ p \in Polys(MaxFrameDeg, {Num(k) : k \in (-MaxFrameCoef)..MaxFrameCoef})
    /\ q \in Operands
    /\ arg = <<>>
    /\ op = "init"
    /\ res = None
    /\ steps = 0

(* a const member or a static function of const references: the value v  *)
(* is returned and no operand is written                                 *)
Returns(name, v) ==
    /\ op' = name
    /\ res' = v
    /\ UNCHANGED <<p, q, arg, steps>>

(* a compound assignment: *this takes the value v *)
Assigns(name, v) ==
    /\ op' = name
    /\ p' = v
    /\ UNCHANGED <<q, arg, res, steps>>

Value(v) == [st |-> "ok", value |-> v]

CallPlusScalar ==
    /\ op = "init"
    /\ \E s \in FrameScalars : Returns("operator+(scalar)", Value(scalar_add(p, s)))

CallMinusScalar ==
    /\ op = "init"
    /\ \E s \in FrameScalars : Returns("operator-(scalar)", Value(scalar_add(p, RNeg(s))))

CallTimesScalar ==
    /\ op = "init"
    /\ \E s \in FrameScalars : Returns("operator*(scalar)", Value(scalar_mul(p, s)))

CallDivScalar ==
    /\ op = "init"
    /\ \E s \in FrameScalars : Returns("operator/(scalar)", Value(scalar_div(p, s)))

CallPlus ==
    /\ op = "init"
    /\ Returns("operator+", Value(poly_add(p, q)))

CallMinus ==
    /\ op = "init"
    /\ Returns("operator-", Value(poly_sub(p, q)))

CallTimes ==
    /\ op = "init"
    /\ Returns("operator*", Value(poly_mul(p, q)))

CallDiv ==
    /\ op = "init"
    /\ Returns("operator/", poly_div(p, q))

CallMod ==
    /\ op = "init"
    /\ Returns("operator%", poly_mod(p, q))

CallDivide ==
    /\ op = "init"
    /\ Returns("divide", divide(p, q))

CallDerive ==
    /\ op = "init"
    /\ Returns("derive", Value(derive(p)))

CallIntegrate ==
    /\ op = "init"
    /\ Returns("integrate", Value(integrate(p)))

(* normalize() written as the in-place division of *this *)
CallNormalizeInPlace ==
    /\ op = "init"
    /\ op' = "normalize"
    /\ p' = normalize(p)
    /\ res' = Value(normalize(p))
    /\ UNCHANGED <<q, arg, steps>>

CallNormalize ==
    /\ op = "init"
    /\ Returns("normalize", Value(normalize(p)))

CallPow ==
    /\ op = "init"
    /\ \E e \in FrameExponents : Returns("pow", Value(pow(p, e)))

CallCompose ==
    /\ op = "init"
    /\ Returns("compose", Value(compose(p, q)))

CallEvaluate ==
    /\ op = "init"
    /\ \E x \in FrameScalars : Returns("evaluate", Value(evaluate(p, x)))

CallEuclidean ==
    /\ op = "init"
    /\ Returns("euclidean", euclidean(p, q))

CallExtendedEuclidean ==
    /\ op = "init"
    /\ Returns("extended_euclidean", extended_euclidean(p, q))

CallYunAlgorithm ==
    /\ op = "init"
    /\ Returns("yun_algorithm", yun_algorithm(p))

CallSturmSequence ==
    /\ op = "init"
    /\ Returns("sturm_sequence", sturm_sequence(p))

CallRootIsolation ==
    /\ op = "init"
    /\ Returns("root_isolation", root_isolation(q))

CallFindRoots ==
    /\ op = "init"
    /\ Returns("find_roots", find_roots(q, <<10, 1>>))

CallPlusAssign ==
    /\ op = "init"
    /\ Assigns("operator+=", poly_add(p, q))

CallTimesAssignScalar ==
    /\ op = "init"
    /\ \E s \in FrameScalars : Assigns("operator*=(scalar)", [i \in 1..Len(p) |-> RMul(p[i], s)])

NextFrame ==
    \/ CallPlusScalar \/ CallMinusScalar \/ CallTimesScalar \/ CallDivScalar
    \/ CallPlus \/ CallMinus \/ CallTimes \/ CallDiv \/ CallMod \/ CallDivide
    \/ CallDerive \/ CallIntegrate \/ CallNormalize \/ CallPow \/ CallCompose
    \/ CallEvaluate \/ CallEuclidean \/ CallExtendedEuclidean \/ CallYunAlgorithm
    \/ CallSturmSequence \/ CallRootIsolation \/ CallFindRoots
    \/ CallPlusAssign \/ CallTimesAssignScalar

SpecFrame == InitFrame /\ [][NextFrame]_vars

NonAssigning ==
    {"operator+(scalar)", "operator-(scalar)", "operator*(scalar)", "operator/(scalar)",
     "operator+", "operator-", "operator*", "operator/", "operator%", "divide",
     "derive", "integrate", "normalize", "pow", "compose", "evaluate", "euclidean",
     "extended_euclidean", "yun_algorithm", "sturm_sequence", "root_isolation",
     "find_roots"}

----------------------------------------------------------------------------
(* from_roots of a sequence of roots *)

MaxFromRoots == 3
MaxFromRootsValue == 2

FromRootsValues == {Num(k) : k \in (-MaxFromRootsValue)..MaxFromRootsValue} \cup {Mk(1, 2)}

InitFromRoots ==
    /\ arg \in UNION {[1..n -> FromRootsValues] : n \in 0..MaxFromRoots}
    /\ p = polynomial_default
    /\ q = poly_zero
    /\ op = "init"
    /\ res = None
    /\ steps = 0

BuildFromRoots ==
    /\ op = "init"
    /\ op' = "from_roots"
    /\ p' = from_roots(arg)
    /\ UNCHANGED <<q, arg, res, steps>>

NextFromRoots == BuildFromRoots

SpecFromRoots == InitFromRoots /\ [][NextFromRoots]_vars

(* C23: from_roots(r_1..r_n) is normalized, has degree n and evaluates   *)
(* to (nearly) zero at every r_i; from_roots of the empty sequence is    *)
(* the constant polynomial 1.                                             *)
C23_FromRoots ==
    op = "from_roots" =>
        /\ is_normalized(p)
        /\ degree(p) = Len(arg)
        /\ \A i \in DOMAIN arg : nearly_zero(evaluate(p, arg[i]), epsilon)
        /\ arg = <<>> => p = poly_one

(* three roots with a repetition *)
C23_Witness ==
    /\ op = "from_roots"
    /\ Len(arg) = 3
    /\ arg[1] = arg[2]
    /\ arg[1] # zero
    /\ degree(p) = 3

----------------------------------------------------------------------------
(* Sign changes of a sequence and of the coefficients of a polynomial *)

MaxSignLen == 3

(* entries of the sequences: -1, 0, 1 and two values within 1e-5 of zero *)
SignValues == {Num(-1), Num(0), Num(1), Mk(1, 200000), Mk(-1, 200000)}

SignSeqs == UNION {[1..m -> SignValues] : m \in 0..MaxSignLen}

InitSigns ==
    /\ arg \in SignSeqs
    /\ p = polynomial(arg)
    /\ q = poly_zero
    /\ op = "init"
    /\ res = None
    /\ steps = 0

(* xmath::sign_changes(sequence) with the default tolerance *)
SignChanges ==
    /\ op = "init"
    /\ op' = "sign_changes"
    /\ res' = [st |-> "ok", value |-> sign_changes(arg, sign_changes_epsilon)]
    /\ UNCHANGED <<p, q, arg, steps>>

(* real_polynomial_root_finder::sign_changes(p) *)
SignChangesOfCoefficients ==
    /\ op = "init"
    /\ op' = "sign_changes(p)"
    /\ res' = [st |-> "ok", value |-> sign_changes(p, epsilon)]
    /\ UNCHANGED <<p, q, arg, steps>>

NextSigns == SignChanges \/ SignChangesOfCoefficients

SpecSigns == InitSigns /\ [][NextSigns]_vars

(* the entries of a sequence that are not within the tolerance of zero *)
NonZeroEntries(sequence, tol) == SelectSeq(sequence, LAMBDA x : ~nearly_zero(x, tol))

(* the number of neighbours of different sign in a sequence without zeros *)
Alternations(s) ==
    Cardinality({k \in 1..(Len(s) - 1) : SignOf(s[k]) # SignOf(s[k + 1])})

(* C28: sign_changes(sequence, eps) is the number of sign alternations    *)
(* between consecutive entries once the entries within eps of zero are    *)
(* removed, also for a sequence whose first entry is (nearly) zero, and   *)
(* sign_changes(p) is this count over the coefficients of p.              *)
C28_SignChanges ==
    /\ op = "sign_changes" =>
          res.value = Alternations(NonZeroEntries(arg, sign_changes_epsilon))
    /\ op = "sign_changes(p)" =>
          res.value = Alternations(NonZeroEntries(p, epsilon))

----------------------------------------------------------------------------
(* The divisors of the polynomial divisions made inside the pipeline *)

MaxDivisorCoef == 2

MaxDivisorDeg == 2

(* the first division of a loop entered without testing b *)
EuclideanDivisorsUnguarded(a, b) == <<b>>

(* the divisors b of r = a % b in the loop of euclidean, in call order *)
RECURSIVE EuclideanDivisorsAfter(_, _)
EuclideanDivisors(a, b) ==
    IF ~is_zero(b) THEN <<b>> \o EuclideanDivisorsAfter(b, poly_mod(a, b)) ELSE <<>>

EuclideanDivisorsAfter(b, r) ==
    IF r.st = "ok" THEN EuclideanDivisors(b, r.value) ELSE <<>>

(* the divisors b of a.divide(b) in the loop of extended_euclidean *)
RECURSIVE ExtendedDivisorsAfter(_, _)
ExtendedDivisors(a, b) ==
    IF ~is_zero(b) THEN <<b>> \o ExtendedDivisorsAfter(b, divide(a, b)) ELSE <<>>

ExtendedDivisorsAfter(b, d) ==
    IF d.st = "ok" THEN ExtendedDivisors(b, d.rem) ELSE <<>>

(* the divisors seq[i] of seq[i - 1] % seq[i] in the loop of sturm_sequence *)
RECURSIVE SturmDivisorsAfter(_, _, _)
SturmDivisors(seq, i) ==
    IF ~is_constant(seq[i])
    THEN <<seq[i]>> \o SturmDivisorsAfter(seq, i, poly_mod(seq[i - 1], seq[i]))
    ELSE <<>>

SturmDivisorsAfter(seq, i, r) ==
    IF r.st = "ok" THEN SturmDivisors(Append(seq, poly_neg(r.value)), i + 1) ELSE <<>>

(* the divisors of yun_algorithm from d = c - b.derive() on: those of     *)
(* euclidean(b, d), then q twice for b / q and d / q in the while loop    *)
RECURSIVE YunLoopDivisors(_, _, _, _)
YunNextDivisors(b, d, fuel) ==
    EuclideanDivisors(b, d) \o YunLoopDivisors(b, d, euclidean(b, d), fuel)

YunStepDivisors(b2, c2, fuel) ==
    IF b2.st # "ok" \/ c2.st # "ok" THEN <<>>
    ELSE YunNextDivisors(b2.value, poly_sub(c2.value, derive(b2.value)), fuel)

YunLoopDivisors(b, d, f, fuel) ==
    IF f.st # "ok" \/ is_zero(d) \/ fuel = 0 THEN <<>>
    ELSE <<f.value, f.value>>
             \o YunStepDivisors(poly_div(b, f.value), poly_div(d, f.value), fuel - 1)

(* q = euclidean(pp, p_prim).to_integer() divides pp and p_prim *)
YunDecomposeDivisors(pp, g) ==
    IF g.st # "ok" THEN <<>>
    ELSE <<to_integer(g.value), to_integer(g.value)>>
             \o YunStepDivisors(poly_div(pp, to_integer(g.value)),
                                poly_div(derive(pp), to_integer(g.value)), MaxYunIter)

YunPrimitiveDivisors(prim) ==
    IF prim.st # "ok" THEN <<>>
    ELSE EuclideanDivisors(prim.value, derive(prim.value))
             \o YunDecomposeDivisors(prim.value, euclidean(prim.value, derive(prim.value)))

YunSquareFreeDivisors(c, sf) ==
    IF sf.st # "ok" \/ sf.value THEN <<>> ELSE YunPrimitiveDivisors(primitive_part(c))

(* the divisors of is_square_free(p), then those of the decomposition *)
YunDivisors(c) ==
    EuclideanDivisors(c, derive(c)) \o YunSquareFreeDivisors(c, is_square_free(c))

InitDivisors ==
    /\ p \in Polys(MaxDivisorDeg, {Num(k) : k \in (-1)..MaxDivisorCoef})
    /\ q \in Operands
    /\ op = "init"
    /\ arg = <<>>
    /\ res = None
    /\ steps = 0

(* an operation of the pipeline together with the divisors it divided by *)
Divides(name, divisors) ==
    /\ op' = name
    /\ res' = [st |-> "ok", value |-> divisors]
    /\ UNCHANGED <<p, q, arg, steps>>

DivisorsOfEuclidean ==
    /\ op = "init"
    /\ Divides("euclidean", EuclideanDivisors(p, q))

DivisorsOfExtendedEuclidean ==
    /\ op = "init"
    /\ Divides("extended_euclidean", ExtendedDivisors(p, q))

DivisorsOfIsSquareFree ==
    /\ op = "init"
    /\ Divides("is_square_free", EuclideanDivisors(p, derive(p)))

DivisorsOfYunAlgorithm ==
    /\ op = "init"
    /\ Divides("yun_algorithm", YunDivisors(p))

DivisorsOfSturmSequence ==
    /\ op = "init"
    /\ Divides("sturm_sequence", SturmDivisors(<<p, derive(p)>>, 2))

NextDivisors ==
    \/ DivisorsOfEuclidean
    \/ DivisorsOfExtendedEuclidean
    \/ DivisorsOfIsSquareFree
    \/ DivisorsOfYunAlgorithm
    \/ DivisorsOfSturmSequence

SpecDivisors == InitDivisors /\ [][NextDivisors]_vars

(* C29: every call of divide, / or % made inside euclidean,               *)
(* extended_euclidean, is_square_free, yun_algorithm and sturm_sequence   *)
(* has a divisor for which is_zero() is false.                            *)
C29_NoZeroDivisor ==
    op # "init" => \A k \in 1..Len(res.value) : ~is_zero(res.value[k])

(* yun_algorithm of a polynomial with a square factor, which divides by   *)
(* the rounded gcd and by the factors found in its loop                   *)
C29_Witness ==
    /\ op = "yun_algorithm"
    /\ is_square_free(p) = [st |-> "ok", value |-> FALSE]
    /\ Len(res.value) >= 5

----------------------------------------------------------------------------
(* The buffer accesses of operator+=(polynomial) and operator-=(polynomial) *)

MaxAssignCoef == 1

MaxAssignDeg == 2

(* coeffs_.size() after coeffs_.resize(std::max(p.degree(), degree()) + 1) *)
ResizedLength(a, b) == Max(degree(a), degree(b)) + 1

(* the values of i in for (auto i = 0; i < coeffs_.size() + 1; ++i), each *)
(* of them an index of coeffs_ given to the unchecked at(i)               *)
AssignedIndices(a, b) == 0..ResizedLength(a, b)

(* what a build does with the access of coeffs_[coeffs_.size()]: the word *)
(* behind the buffer is rewritten with its own value, or the run is ended *)
AccessOutcomes(indices, size) ==
    IF \A i \in indices : i < size THEN {"ok"} ELSE {"ok", "aborts"}

InitAssign ==
    /\ p \in Polys(MaxAssignDeg, {Num(k) : k \in (-1)..MaxAssignCoef})
    /\ q \in Operands
    /\ op = "init"
    /\ arg = <<>>
    /\ res = None
    /\ steps = 0

(* p becomes v unless the run is ended; arg keeps the old p, the length   *)
(* of the resized buffer and the indices of it that the loop has accessed *)
AssignsInPlace(name, v, outcome) ==
    /\ op' = name
    /\ arg' = [p |-> p, size |-> ResizedLength(p, q), indices |-> AssignedIndices(p, q)]
    /\ res' = [st |-> outcome]
    /\ p' = IF outcome = "ok" THEN v ELSE p
    /\ UNCHANGED <<q, steps>>

PlusAssignInPlace ==
    /\ op = "init"
    /\ \E outcome \in AccessOutcomes(AssignedIndices(p, q), ResizedLength(p, q)) :
          AssignsInPlace("operator+=",
                         trim_coefficients([i \in 1..ResizedLength(p, q) |->
                                               RAdd(at(p, i - 1), at(q, i - 1))]), outcome)

MinusAssignInPlace ==
    /\ op = "init"
    /\ \E outcome \in AccessOutcomes(AssignedIndices(p, q), ResizedLength(p, q)) :
          AssignsInPlace("operator-=",
                         trim_coefficients([i \in 1..ResizedLength(p, q) |->
                                               RSub(at(p, i - 1), at(q, i - 1))]), outcome)

NextAssign == PlusAssignInPlace \/ MinusAssignInPlace

SpecAssign == InitAssign /\ [][NextAssign]_vars

(* C30: p += q and p -= q leave p equal to p + q and p - q and access only *)
(* the indices 0..max(deg p, deg q) of the buffer of p, never an index     *)
(* that is not below the length of the buffer.                             *)
C30_AssignInBounds ==
    /\ op = "operator+=" => (res.st = "ok" /\ p = poly_add(arg.p, q))
    /\ op = "operator-=" => (res.st = "ok" /\ p = poly_sub(arg.p, q))
    /\ op \in {"operator+=", "operator-="} => \A i \in arg.indices : i < arg.size

====
